---- MODULE Spec2Model ----
(***************************************************************************)
(* Model of src/server.py: the BabelDOC PDF translation service.           *)
(*                                                                         *)
(* The state is the in-memory job table `jobs`, the objects of the S3      *)
(* bucket, the background threads started by the two admission routes      *)
(* (one per job, each at a position `pc` named after the source line it    *)
(* is about to execute), the scratch directories on disk and the           *)
(* callbacks posted so far.  `out` is what the last step emitted: an HTTP  *)
(* response of a route, or a callback POST and whether it was delivered.   *)
(*                                                                         *)
(* Every statement of a worker that writes the job table, the bucket or    *)
(* posts a callback is one action, because a status query (any thread of   *)
(* the server) can run between any two of them.                            *)
(***************************************************************************)
EXTENDS Naturals, Sequences, FiniteSets, TLC

VARIABLES
    env_faults,          \* whether the network, babeldoc and S3 can fail in this run
    babeldoc_available,  \* module global set once at start-up (lines 53-75)
    openai_api_key,      \* os.environ['OPENAI_API_KEY'], "" when not configured
    jobs,                \* the global dict `jobs`: job id -> record
    s3,                  \* keys of the objects present in the S3 bucket
    threads,             \* job id -> the worker thread started for it
    scratch,             \* job ids whose mkdtemp directory exists on disk
    sent,                \* job id -> payloads its worker has POSTed, in order
    out                  \* what the last step emitted

vars == <<env_faults, babeldoc_available, openai_api_key, jobs, s3, threads, scratch, sent, out>>

----------------------------------------------------------------------------
(* Bounds of the model.                                                    *)

\* number of jobs the admission routes create in one run
MaxJobs == 2
\* distinct values int(time.time()) takes during one run
MaxTime == 2

----------------------------------------------------------------------------
(* Values.                                                                 *)

\* Python's None, and a key that is absent from a JSON body or from a dict
None == "null"

\* str(v) as an f-string renders it
Str(v) == IF v = None THEN "None" ELSE v

\* Python truthiness of a request value: None and "" are falsy
Falsy(v) == v \in {None, ""}

BookIds == {None, "b1"}
PdfUrls == {None, "u1"}
PageNumbers == {None, "1", "2"}
TargetLangs == {None, "zh"}
CallbackUrls == {None, "cb"}

\* request.json of POST /translate/page: every well-formed body, and the
\* bodies that lack some of the required fields
PageBodies ==
    [bookId : BookIds \ {None}, pdfUrl : PdfUrls \ {None},
     pageNumber : PageNumbers \ {None}, targetLang : TargetLangs,
     callbackUrl : CallbackUrls]
    \cup
    [bookId : BookIds, pdfUrl : PdfUrls, pageNumber : {None, "1"},
     targetLang : {None}, callbackUrl : CallbackUrls \ {None}]

\* request.json of POST /translate, which reads no pageNumber
FullBodies ==
    [bookId : BookIds, pdfUrl : PdfUrls, targetLang : {None},
     callbackUrl : CallbackUrls]

\* the values int(time.time()) can take
Timestamps == 1..MaxTime

\* target_lang = data.get("targetLang", "zh")
DefaultLang(v) == IF v = None THEN "zh" ELSE v

\* the configuration of a run: no request and no worker changes it
Env == <<env_faults, babeldoc_available, openai_api_key>>

\* how an external operation (a download, the babeldoc run, an S3 call) can
\* end: normally ("ok"), or in one of `failures` when the environment can fail
Outcomes(failures) == IF env_faults THEN {"ok"} \cup failures ELSE {"ok"}

\* nothing emitted
Quiet == [kind |-> "none"]

\* jsonify(body), code: the response of a route to a request
Response(route, request, code, body) ==
    [kind |-> "response", route |-> route, request |-> request,
     code |-> code, body |-> body]

----------------------------------------------------------------------------
(* The S3 helpers.                                                         *)

\* f"https://{bucket}.s3.{region}.amazonaws.com/{key}"
S3Url(key) == "https://bucket.s3.ap-southeast-1.amazonaws.com/" \o key

\* check_s3_exists answering with a path-style URL, not the virtual-hosted
\* form upload_to_s3 returns
check_s3_exists_path_style(key, head_object) ==
    IF head_object = "ok" /\ key \in s3
    THEN "https://s3.ap-southeast-1.amazonaws.com/bucket/" \o key
    ELSE None

\* check_s3_exists without the head_object call: the URL of any key
check_s3_exists_no_head(key, head_object) == S3Url(key)

\* check_s3_exists: the URL when head_object goes through ("ok") and the key
\* exists; every exception, a missing key included, is swallowed by the bare
\* except and reported as None.
check_s3_exists(key, head_object) ==
    IF head_object = "ok" /\ key \in s3 THEN S3Url(key) ELSE None

\* cache_key of translate_page and translate_page_async
PageCacheKey(book_id, page_number, target_lang) ==
    "books/" \o Str(book_id) \o "/translated_pages/page_" \o Str(page_number)
        \o "_" \o Str(target_lang) \o ".pdf"

\* s3_key of translate_full_pdf_async
FullS3Key(book_id, timestamp) ==
    "books/" \o Str(book_id) \o "/translated_" \o ToString(timestamp) \o ".pdf"

----------------------------------------------------------------------------
(* Initial state: the module has been imported, no request served yet.     *)

Init ==
    /\ env_faults = TRUE
    /\ babeldoc_available \in BOOLEAN
    /\ openai_api_key \in {"", "sk"}
    /\ jobs = <<>>
    /\ s3 = {}
    /\ threads = <<>>
    /\ scratch = {}
    /\ sent = <<>>
    /\ out = Quiet

\* the same, in a run where babeldoc is installed, the API key is configured
\* and no external operation fails
InitReliable ==
    /\ env_faults = FALSE
    /\ babeldoc_available = TRUE
    /\ openai_api_key = "sk"
    /\ jobs = <<>>
    /\ s3 = {}
    /\ threads = <<>>
    /\ scratch = {}
    /\ sent = <<>>
    /\ out = Quiet

\* str(uuid.uuid4()): an id no job has had
NewJobId == Cardinality(DOMAIN jobs) + 1

\* threading.Thread(target=..., args=...).start()
StartThread(job_id, first, pdf_url, page_number, target_lang, callback_url, book_id) ==
    /\ threads' = threads @@ (job_id :>
          [pc |-> first, pdf_url |-> pdf_url, page_number |-> page_number,
           target_lang |-> target_lang, callback_url |-> callback_url,
           book_id |-> book_id, work_dir |-> FALSE, e |-> None,
           cached_url |-> None, translated_url |-> None])
    /\ sent' = sent @@ (job_id :> <<>>)

----------------------------------------------------------------------------
(* The admission routes.                                                   *)

\* translate_page creating the entry as the response describes it: processing
translate_page_entry_processing(data) ==
    LET book_id == data.bookId
        pdf_url == data.pdfUrl
        page_number == data.pageNumber
        target_lang == DefaultLang(data.targetLang)
        callback_url == data.callbackUrl
        cache_key == PageCacheKey(book_id, page_number, target_lang)
        job_id == NewJobId
    IN
    IF ~babeldoc_available
    THEN /\ out' = Response("/translate/page", data, 503,
                      [error |-> "babeldoc is not available", status |-> "failed"])
         /\ UNCHANGED <<Env, jobs, s3, threads, scratch, sent>>
    ELSE IF Falsy(pdf_url) \/ Falsy(book_id) \/ page_number = None
    THEN /\ out' = Response("/translate/page", data, 400,
                      [error |-> "pdfUrl, bookId and pageNumber are required"])
         /\ UNCHANGED <<Env, jobs, s3, threads, scratch, sent>>
    ELSE \E head_object \in Outcomes({"error"}) :
         LET cached_url == check_s3_exists(cache_key, head_object) IN
         IF cached_url # None
         THEN /\ out' = Response("/translate/page", data, 200,
                           [status |-> "completed", pageNumber |-> page_number,
                            translatedUrl |-> cached_url, cached |-> TRUE])
              /\ UNCHANGED <<Env, jobs, s3, threads, scratch, sent>>
         ELSE /\ job_id <= MaxJobs
              /\ jobs' = jobs @@ (job_id :>
                    [status |-> "processing", progress |-> 0, book_id |-> book_id,
                     page_number |-> page_number, translated_url |-> None,
                     error |-> None])
              /\ StartThread(job_id, "L119", pdf_url, page_number, target_lang,
                             callback_url, book_id)
              /\ out' = Response("/translate/page", data, 200,
                           [jobId |-> job_id, status |-> "processing",
                            pageNumber |-> page_number])
              /\ UNCHANGED <<Env, s3, scratch>>

\* POST /translate/page
translate_page(data) ==
    LET book_id == data.bookId
        pdf_url == data.pdfUrl
        page_number == data.pageNumber
        target_lang == DefaultLang(data.targetLang)
        callback_url == data.callbackUrl
        cache_key == PageCacheKey(book_id, page_number, target_lang)
        job_id == NewJobId
    IN
    IF ~babeldoc_available
    THEN /\ out' = Response("/translate/page", data, 503,
                      [error |-> "babeldoc is not available", status |-> "failed"])
         /\ UNCHANGED <<Env, jobs, s3, threads, scratch, sent>>
    ELSE IF Falsy(pdf_url) \/ Falsy(book_id) \/ page_number = None
    THEN /\ out' = Response("/translate/page", data, 400,
                      [error |-> "pdfUrl, bookId and pageNumber are required"])
         /\ UNCHANGED <<Env, jobs, s3, threads, scratch, sent>>
    ELSE \E head_object \in Outcomes({"error"}) :
         LET cached_url == check_s3_exists(cache_key, head_object) IN
         IF cached_url # None
         THEN /\ out' = Response("/translate/page", data, 200,
                           [status |-> "completed", pageNumber |-> page_number,
                            translatedUrl |-> cached_url, cached |-> TRUE])
              /\ UNCHANGED <<Env, jobs, s3, threads, scratch, sent>>
         ELSE /\ job_id <= MaxJobs
              /\ jobs' = jobs @@ (job_id :>
                    [status |-> "pending", progress |-> 0, book_id |-> book_id,
                     page_number |-> page_number, translated_url |-> None,
                     error |-> None])
              /\ StartThread(job_id, "L119", pdf_url, page_number, target_lang,
                             callback_url, book_id)
              /\ out' = Response("/translate/page", data, 200,
                           [jobId |-> job_id, status |-> "processing",
                            pageNumber |-> page_number])
              /\ UNCHANGED <<Env, s3, scratch>>

\* POST /translate
translate(data) ==
    LET book_id == data.bookId
        pdf_url == data.pdfUrl
        target_lang == DefaultLang(data.targetLang)
        callback_url == data.callbackUrl
        job_id == NewJobId
    IN
    IF ~babeldoc_available
    THEN /\ out' = Response("/translate", data, 503,
                      [error |-> "babeldoc is not available", status |-> "failed"])
         /\ UNCHANGED <<Env, jobs, s3, threads, scratch, sent>>
    ELSE IF Falsy(pdf_url)
    THEN /\ out' = Response("/translate", data, 400, [error |-> "pdfUrl is required"])
         /\ UNCHANGED <<Env, jobs, s3, threads, scratch, sent>>
    ELSE /\ job_id <= MaxJobs
         /\ jobs' = jobs @@ (job_id :>
               [status |-> "pending", progress |-> 0, book_id |-> book_id,
                page_number |-> None, translated_url |-> None, error |-> None])
         /\ StartThread(job_id, "L259", pdf_url, None, target_lang, callback_url, book_id)
         /\ out' = Response("/translate", data, 200, [jobId |-> job_id, status |-> "pending"])
         /\ UNCHANGED <<Env, s3, scratch>>

\* what GET /status/<job_id> answers in the current state
StatusReply(job_id) ==
    IF job_id \notin DOMAIN jobs
    THEN Response("/status", job_id, 404, [error |-> "Job not found"])
    ELSE LET job == jobs[job_id] IN
         Response("/status", job_id, 200,
             [jobId |-> job_id, status |-> job.status,
              progress |-> job.progress, pageNumber |-> job.page_number,
              translatedUrl |-> job.translated_url, error |-> job.error])

\* a status route that answers for an unknown id with a record made up for it
status_default_record(job_id) ==
    /\ jobs' = IF job_id \in DOMAIN jobs THEN jobs
               ELSE jobs @@ (job_id :> [status |-> "pending", progress |-> 0,
                                        book_id |-> None, page_number |-> None,
                                        translated_url |-> None, error |-> None])
    /\ out' = Response("/status", job_id, 200, [jobId |-> job_id])
    /\ UNCHANGED <<Env, s3, threads, scratch, sent>>

\* GET /status/<job_id>
status(job_id) ==
    /\ out' = StatusReply(job_id)
    /\ UNCHANGED <<Env, jobs, s3, threads, scratch, sent>>

\* what GET /download/<job_id> answers in the current state; `exists` is
\* what os.path.exists(file_path) returns.  job.get("file_path") is None for
\* a record without that key, and no statement of the program stores one.
DownloadReply(job_id, exists) ==
    IF job_id \notin DOMAIN jobs
    THEN Response("/download", job_id, 404, [error |-> "Job not found"])
    ELSE LET job == jobs[job_id]
             file_path == IF "file_path" \in DOMAIN job
                          THEN job.file_path ELSE None
         IN IF Falsy(file_path) \/ ~exists
            THEN Response("/download", job_id, 404, [error |-> "File not found"])
            ELSE Response("/download", job_id, 200, [file |-> file_path])

\* GET /download/<job_id>
download(job_id) ==
    /\ \E exists \in BOOLEAN : out' = DownloadReply(job_id, exists)
    /\ UNCHANGED <<Env, jobs, s3, threads, scratch, sent>>

----------------------------------------------------------------------------
(* What the statements of the two workers are made of.                     *)

\* the thread of job j moves on to the statement at `next`
Step(j, next) == threads' = [threads EXCEPT ![j].pc = next]

\* an exception with message msg leaves the try block for the handler
Raise(j, msg, handler) ==
    threads' = [threads EXCEPT ![j].pc = handler, ![j].e = msg]

\* jobs[job_id][k] = v
SetItem(j, k, v, next) ==
    /\ jobs' = [jobs EXCEPT ![j][k] = v]
    /\ Step(j, next)
    /\ out' = Quiet
    /\ UNCHANGED <<Env, s3, scratch, sent>>

\* the payload dict send_callback builds from its arguments; kw holds the
\* keyword arguments of the call that are not None
Payload(book_id, st, kw) ==
    [bookId |-> book_id, status |-> st]
        @@ (IF "progress" \in DOMAIN kw THEN [progress |-> kw.progress] ELSE <<>>)
        @@ (IF "translated_url" \in DOMAIN kw /\ ~Falsy(kw.translated_url)
            THEN [translatedFileUrl |-> kw.translated_url,
                  translatedUrl |-> kw.translated_url]
            ELSE <<>>)
        @@ (IF "error" \in DOMAIN kw /\ ~Falsy(kw.error)
            THEN [error |-> kw.error] ELSE <<>>)
        @@ (IF "page_number" \in DOMAIN kw /\ kw.page_number # None
            THEN [pageNumber |-> kw.page_number] ELSE <<>>)

\* how requests.post can end: a 2xx response, another response (only logged),
\* or an exception such as a timeout (caught and logged)
Deliveries == {"2xx", "non2xx", "exception"}

\* send_callback without its try/except: an exception of requests.post
\* reaches the worker, whose handler takes over
send_callback_raises(j, st, kw, next) ==
    LET t == threads[j] IN
    /\ IF Falsy(t.callback_url)
       THEN /\ sent' = sent
            /\ out' = Quiet
            /\ Step(j, next)
       ELSE \E delivery \in Deliveries :
            /\ sent' = [sent EXCEPT ![j] = Append(@, Payload(t.book_id, st, kw))]
            /\ out' = [kind |-> "callback", job |-> j,
                       payload |-> Payload(t.book_id, st, kw),
                       delivery |-> delivery]
            /\ IF delivery = "exception"
               THEN Raise(j, "callback failed",
                          IF t.page_number # None THEN "L242" ELSE "L356")
               ELSE Step(j, next)
    /\ UNCHANGED <<Env, jobs, s3, scratch>>

\* send_callback(callback_url, book_id, status, **kw), called by job j's
\* worker, which then goes on at `next`
send_callback(j, st, kw, next) ==
    LET t == threads[j] IN
    /\ IF Falsy(t.callback_url)
       THEN /\ sent' = sent
            /\ out' = Quiet
       ELSE \E delivery \in Deliveries :
            /\ sent' = [sent EXCEPT ![j] = Append(@, Payload(t.book_id, st, kw))]
            /\ out' = [kind |-> "callback", job |-> j,
                       payload |-> Payload(t.book_id, st, kw),
                       delivery |-> delivery]
    /\ Step(j, next)
    /\ UNCHANGED <<Env, jobs, s3, scratch>>

At(j, line) == j \in DOMAIN threads /\ threads[j].pc = line

----------------------------------------------------------------------------------------------------------------------------------------------
(* translate_page_async, statement by statement.  A statement that only    *)
(* touches what is private to the thread (its locals, its scratch          *)
(* directory, the download, the babeldoc run) is taken in one step with    *)
(* the next statement that other threads can see.                          *)

\* lines 116-119
P119(j) ==
    /\ At(j, "L119")
    /\ IF ~babeldoc_available
       THEN /\ Raise(j, "babeldoc is not available", "L242")
            /\ out' = Quiet
            /\ UNCHANGED <<Env, jobs, s3, scratch, sent>>
       ELSE SetItem(j, "status", "processing", "L120")

P120(j) == At(j, "L120") /\ SetItem(j, "progress", 10, "L121")

P121(j) ==
    /\ At(j, "L121")
    /\ send_callback(j, "processing",
           [progress |-> 10, page_number |-> threads[j].page_number], "L125")

\* lines 124-126: the worker's own look into the bucket
P125(j) ==
    /\ At(j, "L125")
    /\ \E head_object \in Outcomes({"error"}) :
         LET t == threads[j]
             cache_key == PageCacheKey(t.book_id, t.page_number, t.target_lang)
             cached_url == check_s3_exists(cache_key, head_object)
         IN threads' = [threads EXCEPT ![j].cached_url = cached_url,
                           ![j].pc = IF cached_url # None THEN "L128" ELSE "L136"]
    /\ out' = Quiet
    /\ UNCHANGED <<Env, jobs, s3, scratch, sent>>

\* P128 storing the URL while the job is still processing
P128_url_first(j) ==
    At(j, "L128") /\ SetItem(j, "translated_url", threads[j].cached_url, "L129")

P128(j) == At(j, "L128") /\ SetItem(j, "status", "completed", "L129")

P129(j) == At(j, "L129") /\ SetItem(j, "progress", 100, "L130")

P130(j) ==
    At(j, "L130") /\ SetItem(j, "translated_url", threads[j].cached_url, "L131")

\* lines 131-133
P131(j) ==
    /\ At(j, "L131")
    /\ send_callback(j, "completed",
           [page_number |-> threads[j].page_number,
            translated_url |-> threads[j].cached_url], "done")

\* lines 136-148: tempfile.mkdtemp and os.makedirs, then requests.get,
\* raise_for_status and the write of input.pdf, then progress = 20
P136(j) ==
    /\ At(j, "L136")
    /\ \E r \in Outcomes({"mkdtemp failed", "download failed"}) :
         /\ threads' = [threads EXCEPT
                ![j].work_dir = (r # "mkdtemp failed"),
                ![j].e = IF r = "ok" THEN @ ELSE r,
                ![j].pc = IF r = "ok" THEN "L149" ELSE "L242"]
         /\ scratch' = IF r = "mkdtemp failed" THEN scratch ELSE scratch \cup {j}
         /\ jobs' = IF r = "ok" THEN [jobs EXCEPT ![j]["progress"] = 20] ELSE jobs
    /\ out' = Quiet
    /\ UNCHANGED <<Env, s3, sent>>

P149(j) ==
    /\ At(j, "L149")
    /\ send_callback(j, "processing",
           [progress |-> 20, page_number |-> threads[j].page_number], "L153")

P153(j) == At(j, "L153") /\ SetItem(j, "progress", 30, "L156")

\* lines 156-197: the API key check, subprocess.run with its 600 s timeout,
\* the return code, then progress = 80
P156(j) ==
    /\ At(j, "L156")
    /\ IF openai_api_key = ""
       THEN Raise(j, "OPENAI_API_KEY not configured", "L242") /\ jobs' = jobs
       ELSE \E r \in Outcomes({"babeldoc failed: stderr",
                               "Command timed out after 600 seconds"}) :
            IF r = "ok"
            THEN jobs' = [jobs EXCEPT ![j]["progress"] = 80] /\ Step(j, "L201")
            ELSE Raise(j, r, "L242") /\ jobs' = jobs
    /\ out' = Quiet
    /\ UNCHANGED <<Env, s3, scratch, sent>>

\* P201 with a checkpoint below the one already stored
P201_progress_drops(j) ==
    /\ At(j, "L201")
    /\ \E r \in Outcomes({"No output PDF found after translation"}) :
         IF r = "ok"
         THEN jobs' = [jobs EXCEPT ![j]["progress"] = 70] /\ Step(j, "L226")
         ELSE Raise(j, r, "L242") /\ jobs' = jobs
    /\ out' = Quiet
    /\ UNCHANGED <<Env, s3, scratch, sent>>

\* lines 199-222: look for the output PDF, then progress = 90
P201(j) ==
    /\ At(j, "L201")
    /\ \E r \in Outcomes({"No output PDF found after translation"}) :
         IF r = "ok"
         THEN jobs' = [jobs EXCEPT ![j]["progress"] = 90] /\ Step(j, "L226")
         ELSE Raise(j, r, "L242") /\ jobs' = jobs
    /\ out' = Quiet
    /\ UNCHANGED <<Env, s3, scratch, sent>>

\* P226 with the job marked completed before the upload has succeeded
P226_completed_before_upload(j) ==
    /\ At(j, "L226")
    /\ \E r \in Outcomes({"upload failed"}) :
         LET t == threads[j]
             cache_key == PageCacheKey(t.book_id, t.page_number, t.target_lang)
         IN IF r = "ok"
            THEN /\ s3' = s3 \cup {cache_key}
                 /\ threads' = [threads EXCEPT
                        ![j].translated_url = S3Url(cache_key), ![j].pc = "L229"]
            ELSE /\ Raise(j, r, "L242")
                 /\ s3' = s3
    /\ jobs' = [jobs EXCEPT ![j]["status"] = "completed"]
    /\ out' = Quiet
    /\ UNCHANGED <<Env, scratch, sent>>

\* line 226: translated_url = upload_to_s3(output_path, cache_key)
P226(j) ==
    /\ At(j, "L226")
    /\ \E r \in Outcomes({"upload failed"}) :
         LET t == threads[j]
             cache_key == PageCacheKey(t.book_id, t.page_number, t.target_lang)
         IN IF r = "ok"
            THEN /\ s3' = s3 \cup {cache_key}
                 /\ threads' = [threads EXCEPT
                        ![j].translated_url = S3Url(cache_key), ![j].pc = "L229"]
            ELSE /\ Raise(j, r, "L242")
                 /\ s3' = s3
    /\ out' = Quiet
    /\ UNCHANGED <<Env, jobs, scratch, sent>>

\* lines 229-232: shutil.rmtree(work_dir, ignore_errors=True), then
\* status = "completed"
P229(j) ==
    /\ At(j, "L229")
    /\ scratch' = scratch \ {j}
    /\ jobs' = [jobs EXCEPT ![j]["status"] = "completed"]
    /\ Step(j, "L233")
    /\ out' = Quiet
    /\ UNCHANGED <<Env, s3, sent>>

P233(j) == At(j, "L233") /\ SetItem(j, "progress", 100, "L234")

\* P234 that never stores the URL in the job
P234_url_not_stored(j) == At(j, "L234") /\ SetItem(j, "progress", 100, "L236")

P234(j) ==
    At(j, "L234") /\ SetItem(j, "translated_url", threads[j].translated_url, "L236")

\* lines 236-238
P236(j) ==
    /\ At(j, "L236")
    /\ send_callback(j, "completed",
           [page_number |-> threads[j].page_number,
            translated_url |-> threads[j].translated_url], "done")

\* a handler that goes back to the download, not one that records the failure
P242_retries(j) ==
    /\ At(j, "L242")
    /\ Step(j, "L136")
    /\ out' = Quiet
    /\ UNCHANGED <<Env, jobs, s3, scratch, sent>>

\* the handler, lines 240-249
P242(j) == At(j, "L242") /\ SetItem(j, "status", "failed", "L243")

P243(j) == At(j, "L243") /\ SetItem(j, "error", threads[j].e, "L244")

\* the handler without its callback
P244_no_callback(j) ==
    /\ At(j, "L244")
    /\ Step(j, "L248")
    /\ out' = Quiet
    /\ UNCHANGED <<Env, jobs, s3, scratch, sent>>

P244(j) ==
    /\ At(j, "L244")
    /\ send_callback(j, "failed",
           [page_number |-> threads[j].page_number, error |-> threads[j].e], "L248")

\* the handler without its cleanup
P248_no_cleanup(j) ==
    /\ At(j, "L248")
    /\ Step(j, "done")
    /\ out' = Quiet
    /\ UNCHANGED <<Env, jobs, s3, scratch, sent>>

\* lines 248-249: if 'work_dir' in locals(): shutil.rmtree(...)
P248(j) ==
    /\ At(j, "L248")
    /\ scratch' = IF threads[j].work_dir THEN scratch \ {j} ELSE scratch
    /\ Step(j, "done")
    /\ out' = Quiet
    /\ UNCHANGED <<Env, jobs, s3, sent>>

translate_page_async(j) ==
    \/ P119(j) \/ P120(j) \/ P121(j) \/ P125(j)
    \/ P128(j) \/ P129(j) \/ P130(j) \/ P131(j)
    \/ P136(j) \/ P149(j) \/ P153(j) \/ P156(j)
    \/ P201(j) \/ P226(j) \/ P229(j)
    \/ P233(j) \/ P234(j) \/ P236(j)
    \/ P242(j) \/ P243(j) \/ P244(j) \/ P248(j)

----------------------------------------------------------------------------
(* translate_full_pdf_async, statement by statement.                       *)

\* lines 256-259
F259(j) ==
    /\ At(j, "L259")
    /\ IF ~babeldoc_available
       THEN /\ Raise(j, "babeldoc is not available", "L356")
            /\ out' = Quiet
            /\ UNCHANGED <<Env, jobs, s3, scratch, sent>>
       ELSE SetItem(j, "status", "processing", "L260")

F260(j) == At(j, "L260") /\ SetItem(j, "progress", 10, "L261")

F261(j) ==
    At(j, "L261") /\ send_callback(j, "processing", [progress |-> 10], "L264")

\* lines 264-276: tempfile.mkdtemp and os.makedirs, then requests.get,
\* raise_for_status and the write of input.pdf, then progress = 20
F264(j) ==
    /\ At(j, "L264")
    /\ \E r \in Outcomes({"mkdtemp failed", "download failed"}) :
         /\ threads' = [threads EXCEPT
                ![j].work_dir = (r # "mkdtemp failed"),
                ![j].e = IF r = "ok" THEN @ ELSE r,
                ![j].pc = IF r = "ok" THEN "L277" ELSE "L356"]
         /\ scratch' = IF r = "mkdtemp failed" THEN scratch ELSE scratch \cup {j}
         /\ jobs' = IF r = "ok" THEN [jobs EXCEPT ![j]["progress"] = 20] ELSE jobs
    /\ out' = Quiet
    /\ UNCHANGED <<Env, s3, sent>>

F277(j) ==
    At(j, "L277") /\ send_callback(j, "processing", [progress |-> 20], "L281")

F281(j) == At(j, "L281") /\ SetItem(j, "progress", 30, "L282")

F282(j) ==
    At(j, "L282") /\ send_callback(j, "processing", [progress |-> 30], "L285")

\* lines 285-336: the API key check, subprocess.run with its 3600 s timeout,
\* the return code, the search for the output PDF, then progress = 90
F285(j) ==
    /\ At(j, "L285")
    /\ IF openai_api_key = ""
       THEN Raise(j, "OPENAI_API_KEY not configured", "L356") /\ jobs' = jobs
       ELSE \E r \in Outcomes({"babeldoc failed: stderr",
                               "Command timed out after 3600 seconds",
                               "No output PDF found after translation"}) :
            IF r = "ok"
            THEN jobs' = [jobs EXCEPT ![j]["progress"] = 90] /\ Step(j, "L340")
            ELSE Raise(j, r, "L356") /\ jobs' = jobs
    /\ out' = Quiet
    /\ UNCHANGED <<Env, s3, scratch, sent>>

\* lines 340-342: timestamp = int(time.time()), the key built from it, and
\* translated_url = upload_to_s3(output_path, s3_key)
F340(j) ==
    /\ At(j, "L340")
    /\ \E timestamp \in Timestamps, r \in Outcomes({"upload failed"}) :
         LET s3_key == FullS3Key(threads[j].book_id, timestamp) IN
         IF r = "ok"
         THEN /\ s3' = s3 \cup {s3_key}
              /\ threads' = [threads EXCEPT
                     ![j].translated_url = S3Url(s3_key), ![j].pc = "L345"]
         ELSE /\ Raise(j, r, "L356")
              /\ s3' = s3
    /\ out' = Quiet
    /\ UNCHANGED <<Env, jobs, scratch, sent>>

\* lines 345-347: shutil.rmtree(work_dir, ignore_errors=True), then
\* status = "completed"
F345(j) ==
    /\ At(j, "L345")
    /\ scratch' = scratch \ {j}
    /\ jobs' = [jobs EXCEPT ![j]["status"] = "completed"]
    /\ Step(j, "L348")
    /\ out' = Quiet
    /\ UNCHANGED <<Env, s3, sent>>

F348(j) == At(j, "L348") /\ SetItem(j, "progress", 100, "L349")

F349(j) ==
    At(j, "L349") /\ SetItem(j, "translated_url", threads[j].translated_url, "L351")

\* lines 351-352
F351(j) ==
    /\ At(j, "L351")
    /\ send_callback(j, "completed",
           [translated_url |-> threads[j].translated_url], "done")

\* a handler that starts the job over, not one that records the failure
F356_retries(j) ==
    /\ At(j, "L356")
    /\ threads' = [threads EXCEPT ![j].pc = "L264", ![j].e = None]
    /\ out' = Quiet
    /\ UNCHANGED <<Env, jobs, s3, scratch, sent>>

\* the handler, lines 354-361
F356(j) == At(j, "L356") /\ SetItem(j, "status", "failed", "L357")

F357(j) == At(j, "L357") /\ SetItem(j, "error", threads[j].e, "L358")

F358(j) ==
    At(j, "L358") /\ send_callback(j, "failed", [error |-> threads[j].e], "L360")

\* lines 360-361: if 'work_dir' in locals(): shutil.rmtree(...)
F360(j) ==
    /\ At(j, "L360")
    /\ scratch' = IF threads[j].work_dir THEN scratch \ {j} ELSE scratch
    /\ Step(j, "done")
    /\ out' = Quiet
    /\ UNCHANGED <<Env, jobs, s3, sent>>

translate_full_pdf_async(j) ==
    \/ F259(j) \/ F260(j) \/ F261(j) \/ F264(j)
    \/ F277(j) \/ F281(j) \/ F282(j) \/ F285(j)
    \/ F340(j) \/ F345(j) \/ F348(j) \/ F349(j) \/ F351(j)
    \/ F356(j) \/ F357(j) \/ F358(j) \/ F360(j)

----------------------------------------------------------------------------
(* The server: requests arrive at any time, the workers run concurrently.  *)

\* ids a client may ask about: those handed out, and one never handed out
QueryIds == 0..MaxJobs

\* the bodies that carry every field their route needs
ValidPageBodies ==
    {data \in PageBodies :
        ~Falsy(data.pdfUrl) /\ ~Falsy(data.bookId) /\ data.pageNumber # None}

ValidFullBodies ==
    {data \in FullBodies : ~Falsy(data.pdfUrl) /\ ~Falsy(data.bookId)}

Workers ==
    \/ \E j \in DOMAIN threads : translate_page_async(j)
    \/ \E j \in DOMAIN threads : translate_full_pdf_async(j)

\* the whole server
Next ==
    \/ \E data \in PageBodies : translate_page(data)
    \/ \E data \in FullBodies : translate(data)
    \/ \E job_id \in QueryIds : status(job_id)
    \/ \E job_id \in QueryIds : download(job_id)
    \/ Workers

Spec == Init /\ [][Next]_vars

\* the jobs: well-formed submissions and the workers they start
NextJobs ==
    \/ \E data \in ValidPageBodies : translate_page(data)
    \/ \E data \in ValidFullBodies : translate(data)
    \/ Workers

SpecJobs == Init /\ [][NextJobs]_vars

\* every route and the workers, in a run where nothing external fails
SpecRoutes == InitReliable /\ [][Next]_vars

\* submissions of one and the same page of one book
DupBodies == {data \in ValidPageBodies : data.pageNumber = "1"}

NextDup ==
    \/ \E data \in DupBodies : translate_page(data)
    \/ \E j \in DOMAIN threads : translate_page_async(j)

\* one page submission and one whole-document submission, both with a
\* callback URL, any number of times
LiveBodies ==
    {data \in ValidPageBodies \cup ValidFullBodies :
        data.callbackUrl # None /\ data.targetLang = None
        /\ ("pageNumber" \in DOMAIN data => data.pageNumber = "1")}

NextLive ==
    \/ \E data \in LiveBodies \cap ValidPageBodies : translate_page(data)
    \/ \E data \in LiveBodies \cap ValidFullBodies : translate(data)
    \/ Workers

\* Each worker is a thread of its own that the operating system keeps
\* scheduling, and every call it blocks in returns within its timeout: a
\* worker that can take a step eventually takes one.
SpecDup ==
    /\ InitReliable
    /\ [][NextDup]_vars
    /\ \A j \in 1..MaxJobs : WF_vars(translate_page_async(j))

\* both kinds of job, external failures included, under the same scheduling
SpecLive ==
    /\ Init
    /\ [][NextLive]_vars
    /\ \A j \in 1..MaxJobs :
          WF_vars(translate_page_async(j)) /\ WF_vars(translate_full_pdf_async(j))

\* the same jobs and scheduling in a run where nothing external fails
SpecLiveReliable ==
    /\ InitReliable
    /\ [][NextLive]_vars
    /\ \A j \in 1..MaxJobs :
          WF_vars(translate_page_async(j)) /\ WF_vars(translate_full_pdf_async(j))

----------------------------------------------------------------------------
(* Properties.                                                             *)

Terminal == {"completed", "failed"}

\* the worker of job j has returned
Finished(j) == j \in DOMAIN threads /\ threads[j].pc = "done"

\* C1: in every reachable state, a job whose status is completed or failed
\* has exactly one of translated_url and error set.
C1_ExactlyOneOfUrlAndError ==
    \A j \in DOMAIN jobs :
        jobs[j].status \in Terminal =>
            (jobs[j].translated_url # None) # (jobs[j].error # None)

\* the statements at which a worker writes a terminal status
TerminalWrites == {"L128", "L229", "L242", "L345", "L356"}

\* C2: the only status changes are pending -> processing, processing ->
\* completed and processing -> failed; a worker that is about to write a
\* terminal status finds the job processing, so the terminal status is
\* written once, and a terminal status never changes again.
C2_StatusTransitions ==
    /\ [](\A j \in DOMAIN threads :
            threads[j].pc \in TerminalWrites => jobs[j].status = "processing")
    /\ [][\A j \in DOMAIN jobs :
            jobs'[j].status # jobs[j].status =>
                <<jobs[j].status, jobs'[j].status>> \in
                    {<<"pending", "processing">>, <<"processing", "completed">>,
                     <<"processing", "failed">>}]_vars

\* both terminal statuses have been reached by finished workers
C2_Witness ==
    /\ \E j \in DOMAIN jobs : Finished(j) /\ jobs[j].status = "completed"
    /\ \E j \in DOMAIN jobs : Finished(j) /\ jobs[j].status = "failed"

\* C3: while a job is processing, no step lowers its progress.
C3_ProgressMonotone ==
    [][\A j \in DOMAIN jobs :
          (jobs[j].status = "processing" /\ jobs'[j].status = "processing")
              => jobs'[j].progress >= jobs[j].progress]_vars

\* a processing job has passed every checkpoint of the page worker
C3_Witness ==
    \E j \in DOMAIN jobs :
        /\ jobs[j].status = "processing"
        /\ jobs[j].progress = 90
        /\ jobs[j].page_number # None

\* the cache key a page worker was started with
KeyOf(j) ==
    PageCacheKey(threads[j].book_id, threads[j].page_number, threads[j].target_lang)

\* jobs a and b are two page jobs admitted for the same
\* (bookId, pageNumber, targetLang)
Duplicates(a, b) ==
    /\ a # b
    /\ a \in DOMAIN threads /\ b \in DOMAIN threads
    /\ threads[a].page_number # None /\ threads[b].page_number # None
    /\ KeyOf(a) = KeyOf(b)

AdmissionRoutes == {"/translate/page", "/translate"}

\* the last step answered a submission
Admitted == out.kind = "response" /\ out.route \in AdmissionRoutes

\* the cache key of the page submission just answered
RequestKey ==
    PageCacheKey(out.request.bookId, out.request.pageNumber,
                 DefaultLang(out.request.targetLang))

\* C5: submit answers before the worker has taken any step, and answers
\* completed only if the probe at admission found the artifact of the
\* submission's cache key.
C5_CompletedOnlyOnCacheHit ==
    (Admitted /\ out.code = 200) =>
        /\ out.body.status = "completed" =>
              /\ out.route = "/translate/page"
              /\ RequestKey \in s3
              /\ out.body.translatedUrl = S3Url(RequestKey)
        /\ "jobId" \in DOMAIN out.body =>
              /\ threads[out.body.jobId].pc \in {"L119", "L259"}
              /\ jobs[out.body.jobId].status = "pending"
              /\ sent[out.body.jobId] = <<>>

\* a submission was answered from the cache
C5_Witness ==
    Admitted /\ out.code = 200 /\ out.body.status = "completed"

\* an artifact of an earlier identical submission is in the bucket
HasArtifact ==
    IF out.route = "/translate/page"
    THEN RequestKey \in s3
    ELSE \E t \in Timestamps : FullS3Key(out.request.bookId, t) \in s3

\* C6: a submission whose artifact already exists is answered completed, with
\* the locator of the artifact, and gets no job and no worker.
C6_CacheHitAnswersCompleted ==
    (Admitted /\ out.code = 200 /\ HasArtifact) =>
        /\ out.body.status = "completed"
        /\ "jobId" \notin DOMAIN out.body

\* the submission just answered lacks a required field
MissingRequired(o) ==
    \/ o.request.pdfUrl = None
    \/ o.request.bookId = None
    \/ o.route = "/translate/page" /\ o.request.pageNumber = None

\* C7: a submission without pdfUrl or bookId, or without pageNumber on
\* /translate/page, gets a validation error, and no job and no worker.
C7_InvalidRejected ==
    [][(out'.kind = "response" /\ out'.route \in AdmissionRoutes
            /\ MissingRequired(out'))
          => (out'.code = 400 /\ jobs' = jobs /\ threads' = threads)]_vars

\* C8: an admission that passes validation and misses the cache adds one
\* entry (pending, progress 0) under an id no job had, and one worker for
\* that id at its first statement; every job has a worker and every worker a
\* job.
C8_AdmissionCreatesOneJob ==
    /\ [](DOMAIN threads = DOMAIN jobs)
    /\ [][(out'.kind = "response" /\ out'.route \in AdmissionRoutes
              /\ out'.code = 200 /\ out'.body.status # "completed")
            => /\ "jobId" \in DOMAIN out'.body
               /\ LET id == out'.body.jobId IN
                  /\ id \notin DOMAIN jobs
                  /\ DOMAIN jobs' = DOMAIN jobs \cup {id}
                  /\ DOMAIN threads' = DOMAIN threads \cup {id}
                  /\ jobs'[id].status = "pending"
                  /\ jobs'[id].progress = 0
                  /\ threads'[id].pc \in {"L119", "L259"}
                  /\ \A k \in DOMAIN jobs :
                        jobs'[k] = jobs[k] /\ threads'[k] = threads[k]]_vars

\* a second job is admitted while the worker of the first is running
C8_Witness ==
    /\ Admitted /\ out.code = 200
    /\ "jobId" \in DOMAIN out.body
    /\ out.body.jobId = 2
    /\ ~Finished(1)
    /\ jobs[1].status = "processing"

\* C9: a callback that is not delivered changes no job, is posted once, and
\* does not divert the worker: the worker goes on to its next statement, not
\* to its failure handler, and ends completed unless one of its own
\* operations raised.
C9_DeliveryFailureIgnored ==
    /\ [](\A j \in DOMAIN threads :
            Finished(j) =>
                jobs[j].status =
                    IF threads[j].e = None THEN "completed" ELSE "failed")
    /\ [][(out'.kind = "callback" /\ out'.delivery # "2xx")
            => LET j == out'.job IN
               /\ jobs' = jobs
               /\ sent' = [sent EXCEPT ![j] = Append(@, out'.payload)]
               /\ threads' = [threads EXCEPT ![j].pc = threads'[j].pc]
               /\ threads'[j].pc \notin {threads[j].pc, "L242", "L356"}]_vars

\* the completed callback raised in requests.post, and the job is completed
C9_Witness ==
    /\ out.kind = "callback"
    /\ out.delivery = "exception"
    /\ out.payload.status = "completed"
    /\ Finished(out.job)
    /\ jobs[out.job].status = "completed"

\* C10: when a callback is posted, a status query for its job answers the
\* same status, a progress not below the callback's, and the same
\* translated URL or error.
C10_StatusNotBehindCallback ==
    out.kind = "callback" =>
        LET p == out.payload
            r == StatusReply(out.job)
        IN /\ r.code = 200
           /\ r.body.status = p.status
           /\ "progress" \in DOMAIN p => r.body.progress >= p.progress
           /\ "translatedUrl" \in DOMAIN p => r.body.translatedUrl = p.translatedUrl
           /\ "error" \in DOMAIN p => r.body.error = p.error

\* a completed callback carrying the URL has been posted
C10_Witness ==
    /\ out.kind = "callback"
    /\ out.payload.status = "completed"
    /\ "translatedUrl" \in DOMAIN out.payload

\* the callbacks of job j that carry a terminal status
TerminalCallbacks(j) ==
    {i \in DOMAIN sent[j] : sent[j][i].status \in Terminal}

\* C11: a job with a callback URL posts at most one callback with a terminal
\* status, after all its other callbacks; when its worker has finished it
\* has posted exactly one, with the status of the job and the job's
\* translated URL (completed) or error (failed).
C11_OneTerminalCallback ==
    \A j \in DOMAIN threads :
        ~Falsy(threads[j].callback_url) =>
            /\ TerminalCallbacks(j) \subseteq {Len(sent[j])}
            /\ Finished(j) =>
                  /\ TerminalCallbacks(j) = {Len(sent[j])}
                  /\ LET p == sent[j][Len(sent[j])] IN
                     /\ p.status = jobs[j].status
                     /\ p.status = "completed" =>
                           /\ "translatedUrl" \in DOMAIN p
                           /\ p.translatedUrl = jobs[j].translated_url
                           /\ "error" \notin DOMAIN p
                     /\ p.status = "failed" =>
                           /\ "error" \in DOMAIN p
                           /\ p.error = jobs[j].error
                           /\ "translatedUrl" \notin DOMAIN p

\* a worker failed after two progress callbacks and has posted its failure
C11_Witness ==
    \E j \in DOMAIN threads :
        /\ Finished(j)
        /\ Len(sent[j]) = 3
        /\ sent[j][3].status = "failed"
        /\ sent[j][2].status = "processing"

\* C12: a worker that has created its scratch directory has removed it when
\* it finishes, whether it completed or failed.
C12_ScratchReleased ==
    \A j \in DOMAIN threads : Finished(j) => j \notin scratch

\* a worker whose upload failed has finished, its directory removed
C12_Witness ==
    \E j \in DOMAIN threads :
        /\ Finished(j)
        /\ threads[j].work_dir
        /\ threads[j].e = "upload failed"
        /\ j \notin scratch

\* C13: under that scheduling, whatever the outcomes of the external
\* operations and whatever the other jobs do, every job in the table
\* eventually has status completed or failed.
C13_EveryJobTerminates ==
    \A j \in 1..MaxJobs :
        [](j \in DOMAIN jobs =>
              <>(j \in DOMAIN jobs /\ jobs[j].status \in Terminal))

\* one job has failed on the timeout of its babeldoc run while another job
\* is still being processed
C13_Witness ==
    \E j, k \in DOMAIN threads :
        /\ Finished(j)
        /\ jobs[j].status = "failed"
        /\ threads[j].e = "Command timed out after 600 seconds"
        /\ jobs[k].status = "processing"

\* C14: a status query for an id that is not in the job table is answered
\* 404, and leaves the table and the workers as they were.
C14_UnknownIdNotFound ==
    [][(out'.kind = "response" /\ out'.route = "/status"
            /\ out'.request \notin DOMAIN jobs)
          => /\ out'.code = 404
             /\ jobs' = jobs
             /\ threads' = threads]_vars

\* an id nobody was given was asked about while a job was in the table
C14_Witness ==
    /\ out.kind = "response"
    /\ out.route = "/status"
    /\ out.request \notin DOMAIN jobs
    /\ out.code = 404
    /\ jobs # <<>>

\* C15: GET /download/<job_id> for a job whose status is completed answers
\* with the translated PDF, not with an error.
C15_CompletedJobDownloads ==
    (/\ out.kind = "response"
     /\ out.route = "/download"
     /\ out.request \in DOMAIN jobs
     /\ jobs[out.request].status = "completed") => out.code = 200

\* the URLs of the artifacts in the bucket that an earlier job with the
\* inputs of job j has stored
ArtifactUrls(j) ==
    LET t == threads[j] IN
    IF t.page_number # None
    THEN {S3Url(k) : k \in {PageCacheKey(t.book_id, t.page_number, t.target_lang)} \cap s3}
    ELSE {S3Url(k) : k \in {FullS3Key(t.book_id, ts) : ts \in Timestamps} \cap s3}

\* C16: a job that is still pending when the artifact for its inputs is in
\* the bucket never gets a scratch directory and never uploads, and ends
\* completed with the URL of that artifact: its worker finds the artifact
\* when it looks into the bucket after marking the job processing.
C16_WorkerRechecksCache ==
    \A j \in 1..MaxJobs :
        []((/\ j \in DOMAIN threads
            /\ jobs[j].status = "pending"
            /\ ArtifactUrls(j) # {})
           => [](j \in DOMAIN threads =>
                   /\ j \notin scratch
                   /\ threads[j].translated_url = None
                   /\ Finished(j) =>
                         /\ jobs[j].status = "completed"
                         /\ jobs[j].translated_url \in ArtifactUrls(j)))

\* jobs a and b were started with the same book, page (if any) and language
SameInputs(a, b) ==
    /\ threads[a].book_id = threads[b].book_id
    /\ threads[a].page_number = threads[b].page_number
    /\ threads[a].target_lang = threads[b].target_lang

\* C17: two jobs with the same bookId, pageNumber (if any) and targetLang
\* that have both uploaded their output have uploaded it under the same key,
\* whatever the time of the upload: the URLs upload_to_s3 returned are equal.
C17_DeterministicKey ==
    \A a, b \in DOMAIN threads :
        (/\ SameInputs(a, b)
         /\ threads[a].translated_url # None
         /\ threads[b].translated_url # None)
        => threads[a].translated_url = threads[b].translated_url

\* the progress values whose write is to be followed by a callback
Checkpoints == {10, 20, 30, 90}

\* job j has posted a processing callback with progress p
Notified(j, p) ==
    \E i \in DOMAIN sent[j] :
        /\ sent[j][i].status = "processing"
        /\ "progress" \in DOMAIN sent[j][i]
        /\ sent[j][i].progress = p

\* C18: when the worker of a job with a callback URL replaces one of the
\* progress values 10, 20, 30, 90 by the next one, it has posted a processing
\* callback with the value it replaces.
C18_CheckpointsNotified ==
    [][\A j \in DOMAIN jobs :
          (/\ ~Falsy(threads[j].callback_url)
           /\ jobs[j].progress \in Checkpoints
           /\ jobs'[j].progress # jobs[j].progress)
          => Notified(j, jobs[j].progress)]_vars

\* the statements of the two workers in the order of the source text
Statements ==
    <<"L119", "L120", "L121", "L125", "L128", "L129", "L130", "L131",
      "L136", "L149", "L153", "L156", "L201", "L226", "L229", "L233",
      "L234", "L236", "L242", "L243", "L244", "L248",
      "L259", "L260", "L261", "L264", "L277", "L281", "L282", "L285",
      "L340", "L345", "L348", "L349", "L351", "L356", "L357", "L358",
      "L360", "done">>

\* where a statement stands in that order
Position(pc) == CHOOSE i \in DOMAIN Statements : Statements[i] = pc

\* the statements of the two handlers, and the end of the worker
AfterFailure == {"L242", "L243", "L244", "L248", "L356", "L357", "L358", "L360", "done"}

\* C19: a worker only moves forward through its statements, so it runs the
\* download, babeldoc and the upload at most once; once one of them has
\* failed the worker is in its handler or done, it has uploaded nothing and
\* uploads nothing, creates no scratch directory, keeps the failure it
\* recorded, and its job ends failed without a translated URL.
C19_SingleAttempt ==
    /\ [](\A j \in DOMAIN threads :
            threads[j].e # None =>
                /\ threads[j].pc \in AfterFailure
                /\ threads[j].translated_url = None
                /\ jobs[j].translated_url = None
                /\ jobs[j].status # "completed"
                /\ Finished(j) => jobs[j].status = "failed")
    /\ [][\A j \in DOMAIN threads :
            /\ threads'[j].pc # threads[j].pc =>
                  Position(threads'[j].pc) > Position(threads[j].pc)
            /\ (threads[j].e # None /\ threads'[j] # threads[j]) =>
                  /\ threads'[j].e = threads[j].e
                  /\ s3' = s3
                  /\ scratch' \subseteq scratch
                  /\ jobs'[j].progress = jobs[j].progress]_vars

\* a page job whose babeldoc run exited non-zero has ended failed, with the
\* progress it had before the run
C19_Witness ==
    \E j \in DOMAIN threads :
        /\ Finished(j)
        /\ threads[j].e = "babeldoc failed: stderr"
        /\ threads[j].page_number # None
        /\ jobs[j].status = "failed"
        /\ jobs[j].progress = 30

\* C20: a job whose status is pending or processing has neither a translated
\* URL nor an error.
C20_NothingSetBeforeTerminal ==
    \A j \in DOMAIN jobs :
        jobs[j].status \in {"pending", "processing"} =>
            jobs[j].translated_url = None /\ jobs[j].error = None

\* a worker that found the page cached has marked its job completed and
\* then stored the URL
C20_Witness ==
    \E j \in DOMAIN threads :
        /\ threads[j].cached_url # None
        /\ jobs[j].status = "completed"
        /\ jobs[j].translated_url = threads[j].cached_url

\* C21: the status in the answer to a submission that created a job is the
\* status of the entry created for it, pending, which is also what a status
\* query made right after the answer reports.
C21_AdmissionStatusIsEntryStatus ==
    (Admitted /\ out.code = 200 /\ "jobId" \in DOMAIN out.body) =>
        /\ out.body.status = jobs[out.body.jobId].status
        /\ out.body.status = StatusReply(out.body.jobId).body.status
        /\ out.body.status = "pending"

====
